---- MODULE Spec2Model ----
(***************************************************************************)
(* A model of the Mixpanel client of mixpanel.go: the construction of the  *)
(* client, the six public operations that build a request object, and the  *)
(* shared submission routine sendPost, cut at the two points where it      *)
(* blocks on the network (http.Post and ioutil.ReadAll).                   *)
(***************************************************************************)
EXTENDS Integers, Sequences, FiniteSets, TLC

VARIABLES
    client,   \* the mixpanel struct: Client, Token, ApiURL
    pc,       \* per call: "idle", "post", "read", "done", "panicked", "killed"
    inv,      \* per call: the public operation invoked and its arguments
    frame,    \* per call: the locals of sendPost (url, params, postBody, err, body)
    posted,   \* per call: the HTTP requests it has issued, in order
    resp,     \* per call: the *http.Response held by sendPost (or nil)
    ret       \* per call: what the operation returned to its caller

vars == <<client, pc, inv, frame, posted, resp, ret>>

(***************************************************************************)
(* Bounds                                                                  *)
(***************************************************************************)
\* number of calls that may be in flight at once on one client
NCalls == 2

Calls == 1..NCalls

\* the sequential specification drives a single call
SeqCalls == {1}

(***************************************************************************)
(* Go values held in map[string]interface{}                                *)
(***************************************************************************)
EmptyMap == [k \in {} |-> 0]

StrV(s) == [kind |-> "string", s |-> s, n |-> 0, m |-> EmptyMap]

IntV(n) == [kind |-> "int64", s |-> "", n |-> n, m |-> EmptyMap]

BoolV(b) == [kind |-> "bool", s |-> "", n |-> IF b THEN 1 ELSE 0, m |-> EmptyMap]

\* a value encoding/json cannot serialize (a channel)
ChanV == [kind |-> "chan", s |-> "", n |-> 0, m |-> EmptyMap]

MapV(m) == [kind |-> "map", s |-> "", n |-> 0, m |-> m]

\* m[k] = v on a Go map
Put(m, k, v) == [x \in (DOMAIN m) \cup {k} |-> IF x = k THEN v ELSE m[x]]

(***************************************************************************)
(* *time.Time: a pointer (addr) to a time value (ms since the Unix epoch). *)
(* The zero time.Time lies far before the epoch; ZeroTime stands for it.   *)
(***************************************************************************)
ZeroTime == [ms |-> -62135596]

NilTime == [addr |-> "nil", ms |-> 0]

IgnoreTime == [addr |-> "IgnoreTime", ms |-> ZeroTime.ms]

\* time.Time.Unix(): whole seconds since the epoch, rounded down
Unix(t) == t.ms \div 1000

(***************************************************************************)
(* Errors                                                                  *)
(***************************************************************************)
NoReturn == [kind |-> "none"]

NilError == [kind |-> "nil"]

NoResp == [present |-> FALSE]

ErrTrackFailed(body, r) == [Body |-> body, Resp |-> r]

ErrTrackFailedError(err) == "Mixpanel did not return 1 when tracking: " \o err.Body

MixpanelError(url, err) == [kind |-> "MixpanelError", URL |-> url, Err |-> err]

MixpanelErrorError(e) == "mixpanel: " \o ErrTrackFailedError(e.Err)

MixpanelErrorCause(e) == e.Err

(***************************************************************************)
(* Construction                                                            *)
(***************************************************************************)
DefaultClient == "http.DefaultClient"

NewFromClient(c, token, apiURL) ==
    [Client |-> c,
     Token  |-> token,
     ApiURL |-> IF apiURL = "" THEN "https://api.mixpanel.com" ELSE apiURL]

New(token, apiURL) == NewFromClient(DefaultClient, token, apiURL)

(***************************************************************************)
(* encoding/json on the values above.  Map keys are written in sorted      *)
(* order; KeyOrder lists every key the model uses in byte order.  The      *)
(* strings of the model hold no character that json.Marshal escapes.       *)
(***************************************************************************)
KeyOrder ==
    << "$distinct_id", "$group_id", "$group_key", "$ignore_time", "$ip", "$set",
       "$time", "$token", "$union", "alias", "distinct_id", "event", "ip", "k",
       "properties", "time", "token" >>

RECURSIVE Serializable(_)
Serializable(v) ==
    CASE v.kind = "chan" -> FALSE
      [] v.kind = "map"  -> \A k \in DOMAIN v.m : Serializable(v.m[k])
      [] OTHER           -> TRUE

RECURSIVE EncodeValue(_)
RECURSIVE EncodeMembers(_, _, _)
EncodeMembers(m, i, first) ==
    IF i > Len(KeyOrder) THEN ""
    ELSE IF KeyOrder[i] \in DOMAIN m
         THEN (IF first THEN "" ELSE ",")
              \o "\"" \o KeyOrder[i] \o "\":" \o EncodeValue(m[KeyOrder[i]])
              \o EncodeMembers(m, i + 1, FALSE)
         ELSE EncodeMembers(m, i + 1, first)

EncodeValue(v) ==
    CASE v.kind = "string" -> "\"" \o v.s \o "\""
      [] v.kind = "int64"  -> ToString(v.n)
      [] v.kind = "bool"   -> (IF v.n = 1 THEN "true" ELSE "false")
      [] v.kind = "map"    -> "{" \o EncodeMembers(v.m, 1, TRUE) \o "}"

RECURSIVE EncodeElems(_, _)
EncodeElems(xs, i) ==
    IF i > Len(xs) THEN ""
    ELSE (IF i = 1 THEN "" ELSE ",") \o EncodeValue(xs[i]) \o EncodeElems(xs, i + 1)

\* json.Marshal of a []interface{}: the bytes, or an error and no bytes
Marshal(xs) ==
    IF \A i \in 1..Len(xs) : Serializable(xs[i])
    THEN [bytes |-> "[" \o EncodeElems(xs, 1) \o "]", err |-> ""]
    ELSE [bytes |-> "", err |-> "json: unsupported type: chan int"]

(***************************************************************************)
(* The request object each public operation builds                         *)
(***************************************************************************)
AliasParams(m, distinctId, newId) ==
    LET props == [token       |-> StrV(m.Token),
                  distinct_id |-> StrV(distinctId),
                  alias       |-> StrV(newId)]
    IN  [event |-> StrV("$create_alias"), properties |-> MapV(props)]

\* for key, value := range src { dst[key] = value }
RangeAssign(dst, src) ==
    [x \in (DOMAIN dst) \cup (DOMAIN src) |-> IF x \in DOMAIN src THEN src[x] ELSE dst[x]]

\* TrackProps with the merge reversed: the custom properties first, the
\* reserved keys written over them
TrackProps_ReservedLast(m, distinctId, e) ==
    LET p0 == RangeAssign(e.Properties,
                          [token |-> StrV(m.Token), distinct_id |-> StrV(distinctId)])
        p1 == IF e.IP # "" THEN Put(p0, "ip", StrV(e.IP)) ELSE p0
    IN  IF e.Timestamp.addr # NilTime.addr
        THEN Put(p1, "time", IntV(Unix(e.Timestamp)))
        ELSE p1

TrackProps(m, distinctId, e) ==
    LET p0 == [token |-> StrV(m.Token), distinct_id |-> StrV(distinctId)]
        p1 == IF e.IP # "" THEN Put(p0, "ip", StrV(e.IP)) ELSE p0
        p2 == IF e.Timestamp.addr # NilTime.addr
              THEN Put(p1, "time", IntV(Unix(e.Timestamp)))
              ELSE p1
    IN  RangeAssign(p2, e.Properties)

TrackParams(m, distinctId, eventName, e) ==
    [event |-> StrV(eventName), properties |-> MapV(TrackProps(m, distinctId, e))]

\* UpdateUserParams with the "else" lost: the two timestamp tests are independent
UpdateUserParams_NoElse(m, distinctId, u) ==
    LET p0 == Put(Put(EmptyMap, "$token", StrV(m.Token)), "$distinct_id", StrV(distinctId))
        p1 == IF u.IP # "" THEN Put(p0, "$ip", StrV(u.IP)) ELSE p0
        p2 == IF u.Timestamp.addr = IgnoreTime.addr
              THEN Put(p1, "$ignore_time", BoolV(TRUE))
              ELSE p1
        p3 == IF u.Timestamp.addr # NilTime.addr
              THEN Put(p2, "$time", IntV(Unix(u.Timestamp)))
              ELSE p2
    IN  Put(p3, u.Operation, MapV(u.Properties))

UpdateUserParams(m, distinctId, u) ==
    LET p0 == Put(Put(EmptyMap, "$token", StrV(m.Token)), "$distinct_id", StrV(distinctId))
        p1 == IF u.IP # "" THEN Put(p0, "$ip", StrV(u.IP)) ELSE p0
        p2 == IF u.Timestamp.addr = IgnoreTime.addr
              THEN Put(p1, "$ignore_time", BoolV(TRUE))
              ELSE IF u.Timestamp.addr # NilTime.addr
                   THEN Put(p1, "$time", IntV(Unix(u.Timestamp)))
                   ELSE p1
    IN  Put(p2, u.Operation, MapV(u.Properties))

UnionUserParams(m, userID, u) ==
    LET p0 == Put(Put(EmptyMap, "$token", StrV(m.Token)), "$distinct_id", StrV(userID))
    IN  Put(p0, u.Operation, MapV(u.Properties))

UpdateGroupParams(m, groupKey, groupId, u) ==
    LET p0 == Put(Put(Put(EmptyMap, "$token", StrV(m.Token)),
                      "$group_id", StrV(groupId)),
                  "$group_key", StrV(groupKey))
    IN  Put(p0, u.Operation, MapV(u.Properties))

UnionGroupParams(m, groupKey, groupId, u) ==
    LET p0 == Put(Put(Put(EmptyMap, "$token", StrV(m.Token)),
                      "$group_id", StrV(groupId)),
                  "$group_key", StrV(groupKey))
    IN  Put(p0, u.Operation, MapV(u.Properties))

(***************************************************************************)
(* sendPost                                                                *)
(***************************************************************************)
\* url := m.ApiURL + "/" + eventType
RequestURL(m, eventType) == m.ApiURL \o "/" \o eventType

\* the closure wrapErr, with the url it captured
wrapErr(url, err) == MixpanelError(url, err)

\* http.Post: the package-level function, which sends through http.DefaultClient
HttpPost(url, contentType, body) ==
    [via |-> DefaultClient, method |-> "POST", url |-> url,
     contentType |-> contentType, body |-> body]

\* NotOne on the body with surrounding white space trimmed
NotOne_Trimmed(sb) == sb \notin {"1", "1\n"}

\* sb != "1" decides failure
NotOne(sb) == sb # "1"

NoFrame == [eventType |-> "", url |-> ""]

\* sendPost keeping the request URL in the client: m.ApiURL = url
sendPost_StoresURL(c, eventType, params) ==
    LET url == RequestURL(client, eventType)
        mar == Marshal(<<MapV(params)>>)
    IN  /\ client' = [client EXCEPT !.ApiURL = url]
        /\ frame' = [frame EXCEPT ![c] =
                        [eventType |-> eventType, url |-> url, params |-> params,
                         postBody |-> mar.bytes, marshalErr |-> mar.err,
                         postErr |-> "", body |-> "", readErr |-> ""]]
        /\ posted' = [posted EXCEPT ![c] = Append(@, HttpPost(url, "application/json", mar.bytes))]
        /\ pc' = [pc EXCEPT ![c] = "post"]
        /\ UNCHANGED <<resp, ret>>

\* sendPost from its entry up to the call of http.Post, where it blocks.  A
\* Marshal error builds a wrapped error that is dropped: there is no return,
\* and the nil postBody is posted.
sendPost(c, eventType, params) ==
    LET url      == RequestURL(client, eventType)
        mar      == Marshal(<<MapV(params)>>)
        dropped  == IF mar.err # "" THEN wrapErr(url, ErrTrackFailed(mar.err, NoResp))
                    ELSE NilError
        postBody == mar.bytes
    IN  /\ frame' = [frame EXCEPT ![c] =
                        [eventType |-> eventType, url |-> url, params |-> params,
                         postBody |-> postBody, marshalErr |-> mar.err,
                         postErr |-> "", body |-> "", readErr |-> ""]]
        /\ posted' = [posted EXCEPT ![c] = Append(@, HttpPost(url, "application/json", postBody))]
        /\ pc' = [pc EXCEPT ![c] = "post"]
        /\ UNCHANGED <<client, resp, ret>>

\* http.Post returns (resp, err).  A transport error builds a wrapped error that
\* is dropped; "defer resp.Body.Close()" then evaluates resp.Body, which
\* panics with a nil pointer dereference when resp is nil.
PostReturns(c, out) ==
    /\ pc[c] = "post"
    /\ frame' = [frame EXCEPT ![c].postErr = out.err]
    /\ resp' = [resp EXCEPT ![c] = out.resp]
    /\ pc' = [pc EXCEPT ![c] = IF out.resp = NoResp THEN "panicked" ELSE "read"]
    /\ UNCHANGED <<client, inv, posted, ret>>

\* ioutil.ReadAll returns (body, err).  A read error builds a wrapped error
\* that is dropped; the bytes read so far are compared with "1".  The deferred
\* Close runs as sendPost returns, on the response the error points to.
ReadAllReturns(c, bytes, rerr) ==
    /\ pc[c] = "read"
    /\ LET closed == [resp[c] EXCEPT !.bodyClosed = TRUE]
           sb     == bytes
       IN  /\ frame' = [frame EXCEPT ![c].body = bytes, ![c].readErr = rerr]
           /\ resp' = [resp EXCEPT ![c] = closed]
           /\ ret' = [ret EXCEPT ![c] =
                        IF NotOne(sb)
                        THEN wrapErr(frame[c].url, ErrTrackFailed("response not 1", closed))
                        ELSE NilError]
    /\ pc' = [pc EXCEPT ![c] = "done"]
    /\ UNCHANGED <<client, inv, posted>>

\* The panic of PostReturns unwinds through the operation into its caller.  A
\* caller that does not recover it ends the process, and with it every call
\* that has not returned.
ProcessExits ==
    /\ \E c \in Calls : pc[c] = "panicked"
    /\ \E c \in Calls : pc[c] \in {"idle", "post", "read"}
    /\ pc' = [c \in Calls |-> IF pc[c] \in {"idle", "post", "read"} THEN "killed" ELSE pc[c]]
    /\ UNCHANGED <<client, inv, frame, posted, resp, ret>>

(***************************************************************************)
(* The public operations                                                   *)
(***************************************************************************)
Alias(c, distinctId, newId) ==
    /\ pc[c] = "idle"
    /\ inv' = [inv EXCEPT ![c] = [op |-> "Alias", distinctId |-> distinctId, newId |-> newId]]
    /\ sendPost(c, "track", AliasParams(client, distinctId, newId))

Track(c, distinctId, eventName, e) ==
    /\ pc[c] = "idle"
    /\ inv' = [inv EXCEPT ![c] = [op |-> "Track", distinctId |-> distinctId,
                                  eventName |-> eventName, e |-> e]]
    /\ sendPost(c, "track", TrackParams(client, distinctId, eventName, e))

UpdateUser(c, distinctId, u) ==
    /\ pc[c] = "idle"
    /\ inv' = [inv EXCEPT ![c] = [op |-> "UpdateUser", distinctId |-> distinctId, u |-> u]]
    /\ sendPost(c, "engage", UpdateUserParams(client, distinctId, u))

UnionUser(c, userID, u) ==
    /\ pc[c] = "idle"
    /\ inv' = [inv EXCEPT ![c] = [op |-> "UnionUser", userID |-> userID, u |-> u]]
    /\ sendPost(c, "engage#profile-union", UnionUserParams(client, userID, u))

UpdateGroup(c, groupKey, groupId, u) ==
    /\ pc[c] = "idle"
    /\ inv' = [inv EXCEPT ![c] = [op |-> "UpdateGroup", groupKey |-> groupKey,
                                  groupId |-> groupId, u |-> u]]
    /\ sendPost(c, "groups", UpdateGroupParams(client, groupKey, groupId, u))

\* UnionGroup submitting to the sub-path of UpdateGroup
UnionGroup_PostsToGroups(c, groupKey, groupId, u) ==
    /\ pc[c] = "idle"
    /\ inv' = [inv EXCEPT ![c] = [op |-> "UnionGroup", groupKey |-> groupKey,
                                  groupId |-> groupId, u |-> u]]
    /\ sendPost(c, "groups", UnionGroupParams(client, groupKey, groupId, u))

UnionGroup(c, groupKey, groupId, u) ==
    /\ pc[c] = "idle"
    /\ inv' = [inv EXCEPT ![c] = [op |-> "UnionGroup", groupKey |-> groupKey,
                                  groupId |-> groupId, u |-> u]]
    /\ sendPost(c, "groups#group-union", UnionGroupParams(client, groupKey, groupId, u))

(***************************************************************************)
(* Inputs: what callers pass and what the network answers                  *)
(***************************************************************************)
HttpClients == {DefaultClient, "proxyClient"}

Tokens == {"tok"}

ApiURLs == {"", "http://mp.test"}

Ids == {"u1", "u2"}

\* the identifier given to the operations other than Alias
UserIds == {"u1"}

EventNames == {"signup"}

GroupKeys == {"company"}

GroupIds == {"g1"}

IPs == {"", "0", "10.0.0.1"}

\* pointers to times after and before the epoch, and a pointer other than
\* IgnoreTime to a zero time.Time
TimeAfter == [addr |-> "t1", ms |-> 1500]

TimeBefore == [addr |-> "t2", ms |-> -1500]

TimeZero == [addr |-> "t3", ms |-> ZeroTime.ms]

CustomKeys == {"token", "time", "k"}

CustomValues == {StrV("v"), ChanV}

PropertyMaps == UNION {[S -> CustomValues] : S \in SUBSET CustomKeys}

Events == [IP : IPs, Timestamp : {NilTime, IgnoreTime, TimeAfter, TimeBefore},
           Properties : PropertyMaps]

Operations == {"$set", "$union", "$time", "$ignore_time", "$token"}

UpdateProperties == {EmptyMap, [k |-> StrV("v")], [k |-> ChanV]}

Updates == [IP : IPs, Timestamp : {NilTime, IgnoreTime, TimeAfter, TimeBefore, TimeZero},
            Operation : Operations, Properties : UpdateProperties]

\* the updates given to the operations that read neither IP nor Timestamp
PlainUpdates == [IP : {"", "10.0.0.1"}, Timestamp : {NilTime, TimeAfter},
                 Operation : Operations, Properties : UpdateProperties]

Response(c, status, bodyClosed) ==
    [present |-> TRUE, for |-> c, StatusCode |-> status, bodyClosed |-> bodyClosed]

StatusCodes == {200, 500}

\* what http.Post can return to call c: a response and no error; an error and
\* no response; or (redirect policy failure) an error together with a
\* response whose body is already closed
TransportOutcomes(c) ==
    {[err |-> "", resp |-> Response(c, s, FALSE)] : s \in StatusCodes}
    \cup {[err |-> "dial tcp: connection refused", resp |-> NoResp]}
    \cup {[err |-> "stopped after 10 redirects", resp |-> Response(c, 302, TRUE)]}

Bodies == {"", "0", "1", "1\n", "11"}

\* the bytes ReadAll hands back when the read fails midway
PartialBodies == {"", "1"}

\* what ioutil.ReadAll can return on response r
ReadOutcomes(r) ==
    IF r.bodyClosed
    THEN {[bytes |-> "", err |-> "http: read on closed response body"]}
    ELSE {[bytes |-> b, err |-> ""] : b \in Bodies}
         \cup {[bytes |-> b, err |-> "unexpected EOF"] : b \in PartialBodies}

(***************************************************************************)
(* Specifications                                                          *)
(***************************************************************************)
Idle ==
    /\ pc = [c \in Calls |-> "idle"]
    /\ inv = [c \in Calls |-> [op |-> "none"]]
    /\ frame = [c \in Calls |-> NoFrame]
    /\ posted = [c \in Calls |-> <<>>]
    /\ resp = [c \in Calls |-> NoResp]
    /\ ret = [c \in Calls |-> NoReturn]

\* a client built by New or by NewFromClient, no call made yet
Init ==
    /\ client \in {New(t, a) : t \in Tokens, a \in ApiURLs}
                  \cup {NewFromClient(h, t, a) : h \in HttpClients, t \in Tokens, a \in ApiURLs}
    /\ Idle

Invoke(c) ==
    \/ \E d \in Ids, n \in Ids : Alias(c, d, n)
    \/ \E d \in UserIds, n \in EventNames, e \in Events : Track(c, d, n, e)
    \/ \E d \in UserIds, u \in Updates : UpdateUser(c, d, u)
    \/ \E d \in UserIds, u \in PlainUpdates : UnionUser(c, d, u)
    \/ \E k \in GroupKeys, g \in GroupIds, u \in PlainUpdates : UpdateGroup(c, k, g, u)
    \/ \E k \in GroupKeys, g \in GroupIds, u \in PlainUpdates : UnionGroup(c, k, g, u)

Network(c) ==
    \/ \E out \in TransportOutcomes(c) : PostReturns(c, out)
    \/ /\ pc[c] = "read"
       /\ \E rd \in ReadOutcomes(resp[c]) : ReadAllReturns(c, rd.bytes, rd.err)

\* one call at a time, every input
Next == \E c \in SeqCalls : Invoke(c) \/ Network(c)

Spec == Init /\ [][Next]_vars

\* the inputs of the concurrent specification: one event, one update, and a
\* network that answers, fails, or breaks off a read
OneEvent == [IP |-> "10.0.0.1", Timestamp |-> TimeAfter, Properties |-> [k |-> StrV("v")]]

OneUpdate == [IP |-> "", Timestamp |-> NilTime, Operation |-> "$set",
              Properties |-> [k |-> StrV("v")]]

FewTransportOutcomes(c) == {out \in TransportOutcomes(c) : out.resp = NoResp \/ out.resp.StatusCode = 200}

FewReadOutcomes(r) ==
    {rd \in ReadOutcomes(r) : (rd.err = "" /\ rd.bytes \in {"0", "1"}) \/ (rd.err # "" /\ rd.bytes = "1")}

InitConcurrent ==
    /\ client = NewFromClient("proxyClient", "tok", "")
    /\ Idle

InvokeOne(c) ==
    \/ Alias(c, "u1", "u2")
    \/ Track(c, "u1", "signup", OneEvent)
    \/ UpdateUser(c, "u1", OneUpdate)
    \/ UnionUser(c, "u1", OneUpdate)
    \/ UpdateGroup(c, "company", "g1", OneUpdate)
    \/ UnionGroup(c, "company", "g1", OneUpdate)

NetworkFew(c) ==
    \/ \E out \in FewTransportOutcomes(c) : PostReturns(c, out)
    \/ /\ pc[c] = "read"
       /\ \E rd \in FewReadOutcomes(resp[c]) : ReadAllReturns(c, rd.bytes, rd.err)

\* NCalls calls on one client, interleaved at every blocking point
NextConcurrent ==
    \/ \E c \in Calls : InvokeOne(c) \/ NetworkFew(c)
    \/ ProcessExits

SpecConcurrent == InitConcurrent /\ [][NextConcurrent]_vars

(***************************************************************************)
(* Properties                                                              *)
(***************************************************************************)
\* the sub-path each public operation is documented to submit to
ExpectedSubPath(opName) ==
    CASE opName = "Track"       -> "track"
      [] opName = "Alias"       -> "track"
      [] opName = "UpdateUser"  -> "engage"
      [] opName = "UnionUser"   -> "engage#profile-union"
      [] opName = "UpdateGroup" -> "groups"
      [] opName = "UnionGroup"  -> "groups#group-union"

ExpectedURL(c) == client.ApiURL \o "/" \o ExpectedSubPath(inv[c].op)

Finished(c) == pc[c] \in {"done", "panicked"}

\* s is t's epoch seconds: the whole second t.ms falls in
IsEpochSeconds(s, t) == s * 1000 <= t.ms /\ t.ms < (s + 1) * 1000

\* C1: when the transport returns an error and no response, the operation
\* returns MixpanelError{URL: ApiURL + "/" + sub-path, Err: ErrTrackFailed
\* carrying the transport error's text}, and does not go on to read a response.
C1_TransportErrorIsReturned ==
    \A c \in Calls :
        (pc[c] \in {"read", "done", "panicked"} /\ frame[c].postErr # "" /\ resp[c] = NoResp)
        => /\ pc[c] = "done"
           /\ ret[c] = MixpanelError(ExpectedURL(c), ErrTrackFailed(frame[c].postErr, NoResp))

\* C2: when the body was read in full without error, the operation returns nil
\* exactly when the body is "1"; for any other body, whatever the status code,
\* it returns an error whose message contains "response not 1" and which
\* carries the response.
C2_NilIffBodyIsOne ==
    \A c \in Calls :
        (pc[c] = "done" /\ frame[c].readErr = "")
        => /\ (ret[c] = NilError) <=> (frame[c].body = "1")
           /\ frame[c].body # "1"
              => /\ ret[c].kind = "MixpanelError"
                 /\ ret[c].Err.Body = "response not 1"
                 /\ MixpanelErrorError(ret[c])
                      = "mixpanel: Mixpanel did not return 1 when tracking: response not 1"
                 /\ ret[c].Err.Resp.present
                 /\ ret[c].Err.Resp = resp[c]

\* C2 witness: a body "1" under status 500 returned nil, and another status
\* is possible too
C2_Witness ==
    \E c \in Calls :
        /\ pc[c] = "done" /\ frame[c].readErr = "" /\ frame[c].body = "1"
        /\ resp[c].StatusCode = 500 /\ ret[c] = NilError

\* C3: every non-nil error an operation returns is a MixpanelError holding an
\* ErrTrackFailed, whose URL is ApiURL + "/" + the sub-path of the operation
\* invoked, and that URL is the one the POST was sent to.
C3_ErrorsCarryTheRequestURL ==
    \A c \in Calls :
        (pc[c] = "done" /\ ret[c] # NilError)
        => /\ ret[c].kind = "MixpanelError"
           /\ DOMAIN ret[c].Err = {"Body", "Resp"}
           /\ MixpanelErrorCause(ret[c]) = ret[c].Err
           /\ ret[c].URL = ExpectedURL(c)
           /\ Len(posted[c]) >= 1
           /\ posted[c][Len(posted[c])].url = ret[c].URL

\* C3 witness: a union operation returned an error
C3_Witness ==
    \E c \in Calls :
        /\ pc[c] = "done" /\ ret[c] # NilError
        /\ inv[c].op = "UnionGroup"
        /\ client.ApiURL = "https://api.mixpanel.com"

\* C5: every request of a client is sent through the HTTP client it was
\* constructed with.
C5_RequestsUseTheSuppliedClient ==
    \A c \in Calls : \A i \in 1..Len(posted[c]) : posted[c][i].via = client.Client

\* C6: when JSON serialization fails, the operation returns
\* MixpanelError{URL, ErrTrackFailed{serialization error text, nil response}}
\* and no HTTP response decides the outcome.
C6_MarshalErrorIsReturned ==
    \A c \in Calls :
        (pc[c] # "idle" /\ frame[c].marshalErr # "")
        => /\ pc[c] = "done"
           /\ posted[c] = <<>>
           /\ ret[c] = MixpanelError(ExpectedURL(c), ErrTrackFailed(frame[c].marshalErr, NoResp))

\* C7: when reading the response body fails, the operation returns a
\* submission-failed error, never nil, whatever bytes were read before.
C7_ReadErrorIsReturned ==
    \A c \in Calls :
        (pc[c] = "done" /\ frame[c].readErr # "")
        => /\ ret[c] # NilError
           /\ ret[c].kind = "MixpanelError"

\* C8: for UpdateUser with an Operation other than "$ignore_time" and "$time",
\* the payload never holds both keys; IgnoreTime gives "$ignore_time" = true
\* and no "$time"; nil gives neither; any other timestamp T gives "$time" =
\* T's epoch seconds and no "$ignore_time".
C8_UpdateUserTimestampCases ==
    \A c \in Calls :
        (pc[c] # "idle" /\ inv[c].op = "UpdateUser"
            /\ inv[c].u.Operation \notin {"$ignore_time", "$time"})
        => LET u == inv[c].u
               p == frame[c].params
           IN  /\ ~("$ignore_time" \in DOMAIN p /\ "$time" \in DOMAIN p)
               /\ u.Timestamp.addr = "IgnoreTime"
                  => /\ "$ignore_time" \in DOMAIN p
                     /\ p["$ignore_time"] = BoolV(TRUE)
                     /\ "$time" \notin DOMAIN p
               /\ u.Timestamp.addr = "nil"
                  => "$ignore_time" \notin DOMAIN p /\ "$time" \notin DOMAIN p
               /\ u.Timestamp.addr \notin {"IgnoreTime", "nil"}
                  => /\ "$time" \in DOMAIN p
                     /\ p["$time"].kind = "int64"
                     /\ IsEpochSeconds(p["$time"].n, u.Timestamp)
                     /\ "$ignore_time" \notin DOMAIN p

\* C8 witness: UpdateUser was given IgnoreTime with a "$set" operation
C8_Witness ==
    \E c \in Calls :
        /\ pc[c] # "idle" /\ inv[c].op = "UpdateUser"
        /\ inv[c].u.Timestamp = IgnoreTime /\ inv[c].u.Operation = "$set"
        /\ "$ignore_time" \in DOMAIN frame[c].params

\* C9: the "properties" Track submits are the reserved keys (token,
\* distinct_id, ip when IP is non-empty, time when Timestamp is non-nil)
\* overridden by the custom properties: a custom key carries the custom value,
\* a reserved key absent from the custom properties carries the computed one.
C9_TrackCustomOverridesReserved ==
    \A c \in Calls :
        (pc[c] # "idle" /\ inv[c].op = "Track")
        => LET e      == inv[c].e
               custom == e.Properties
               p      == frame[c].params.properties.m
           IN  /\ frame[c].params.event = StrV(inv[c].eventName)
               /\ \A k \in DOMAIN custom : k \in DOMAIN p /\ p[k] = custom[k]
               /\ "token" \notin DOMAIN custom => p["token"] = StrV(client.Token)
               /\ "distinct_id" \notin DOMAIN custom
                  => p["distinct_id"] = StrV(inv[c].distinctId)
               /\ "ip" \notin DOMAIN custom
                  => IF e.IP # "" THEN p["ip"] = StrV(e.IP) ELSE "ip" \notin DOMAIN p
               /\ "time" \notin DOMAIN custom
                  => IF e.Timestamp.addr # "nil"
                     THEN /\ p["time"].kind = "int64"
                          /\ IsEpochSeconds(p["time"].n, e.Timestamp)
                     ELSE "time" \notin DOMAIN p
               /\ DOMAIN p \subseteq {"token", "distinct_id", "ip", "time"} \cup DOMAIN custom

\* C9 witness: a custom "token" with a timestamp before the epoch and no
\* custom "time"
C9_Witness ==
    \E c \in Calls :
        /\ pc[c] # "idle" /\ inv[c].op = "Track"
        /\ "token" \in DOMAIN inv[c].e.Properties
        /\ "time" \notin DOMAIN inv[c].e.Properties
        /\ inv[c].e.Timestamp = TimeBefore
        /\ frame[c].params.properties.m["time"] = IntV(-2)

\* a call failed: at the transport, at the read, or by a body other than "1"
Failed(c) ==
    \/ frame[c].postErr # ""
    \/ pc[c] = "done" /\ (frame[c].readErr # "" \/ frame[c].body # "1")

\* C10: each invocation issues exactly one POST and then returns, and every
\* failure is reported to the caller by that invocation.
C10_OnePostAndFailuresReported ==
    \A c \in Calls :
        /\ Len(posted[c]) <= 1
        /\ Finished(c)
           => /\ pc[c] = "done"
              /\ Len(posted[c]) = 1
              /\ Failed(c) => ret[c] # NilError

====
